---- MODULE Spec2Model ----
(***************************************************************************)
(* A model of package runner (chapter7/patterns/runner/runner.go).         *)
(*                                                                         *)
(* Two goroutines: the caller of Start and the worker Start spawns.  The   *)
(* environment is the operating system (interrupt signals) and the         *)
(* runtime timer armed by time.After.  Channels are modelled by what they  *)
(* hold: interrupt and timeout are one-slot buffers (0 or 1 pending        *)
(* value), complete is unbuffered, so a send on it is a rendezvous of the  *)
(* worker blocked in its send with the caller's select.                    *)
(***************************************************************************)
EXTENDS Integers, Sequences, FiniteSets, TLC

\* ---- bounds of the model ------------------------------------------------
MaxTasks == 3      \* longest task sequence registered
MaxAdd == 2        \* most tasks handed to one Add call
MaxSignals == 2    \* most interrupt signals the operating system raises
MaxAdds == 3       \* most calls of Add

\* the functions a caller may register (a function may be registered twice)
TaskIds == {"a", "b"}

\* ---- the result vocabulary ----------------------------------------------
Success == "nil"
ErrTimeout == "received timeout"
ErrInterrupt == "received interrupt"
NoResult == "none"

VARIABLES
    tasks,            \* r.tasks: the registered functions, in order
    interrupt,        \* values buffered in r.interrupt (capacity 1)
    subscribed,       \* r.interrupt is registered with os/signal
    timeout,          \* values buffered in r.timeout (capacity 1)
    timerFired,       \* the timer of time.After(d) has fired
    callerPc,         \* the caller: "init", "spawn", "select", "returned"
    workerPc,         \* the worker: "none", "loop", "stop", "task", "send", "done"
    idx,              \* the loop variable id of run
    runResult,        \* the value run returned, offered on r.complete
    result,           \* the value Start returned
    invoked,          \* history: the calls task(id) made, as <<function, id>>
    raised,           \* history: signals raised by the operating system
    raisedBeforeStart,\* history: a signal was raised before Start was called
    sigBegan,         \* history: tasks begun when the first signal was relayed, or -1
    firedAtStart,     \* history: the timer had fired when Start was called
    firedAtComplete,  \* history: the timer had fired when run returned
    checks,           \* history: calls of gotInterrupt
    handoffs,         \* history: values received from r.complete
    adds              \* history: the argument lists of the Add calls, in order

vars == <<tasks, interrupt, subscribed, timeout, timerFired, callerPc, workerPc,
          idx, runResult, result, invoked, raised, raisedBeforeStart, sigBegan,
          firedAtStart, firedAtComplete, checks, handoffs, adds>>

env == <<interrupt, subscribed, timeout, timerFired>>
hist == <<raised, raisedBeforeStart, sigBegan, firedAtStart, firedAtComplete,
          checks, handoffs>>

\* sequences over S of length lo..hi
SeqsOf(S, lo, hi) == UNION {[1..n -> S] : n \in lo..hi}

\* ---- New -----------------------------------------------------------------
\* New(d): a buffered interrupt channel, an unbuffered complete channel, the
\* timer armed, no tasks.  Nothing is subscribed yet.
New ==
    /\ tasks = <<>>
    /\ interrupt = 0
    /\ subscribed = FALSE
    /\ timeout = 0
    /\ timerFired = FALSE

Init ==
    /\ New
    /\ callerPc = "init"
    /\ workerPc = "none"
    /\ idx = 0
    /\ runResult = NoResult
    /\ result = NoResult
    /\ invoked = <<>>
    /\ raised = 0
    /\ raisedBeforeStart = FALSE
    /\ sigBegan = -1
    /\ firedAtStart = FALSE
    /\ firedAtComplete = FALSE
    /\ checks = 0
    /\ handoffs = 0
    /\ adds = <<>>

\* ---- Add -----------------------------------------------------------------
\* Add putting the new tasks in front of the registered ones.
Add_Prepends(ts) ==
    /\ callerPc = "init"
    /\ Len(adds) < MaxAdds
    /\ Len(tasks) + Len(ts) <= MaxTasks
    /\ tasks' = ts \o tasks
    /\ adds' = Append(adds, ts)
    /\ UNCHANGED <<env, callerPc, workerPc, idx, runResult, result, invoked, hist>>

\* r.tasks = append(r.tasks, tasks...)
Add(ts) ==
    /\ callerPc = "init"
    /\ Len(adds) < MaxAdds
    /\ Len(tasks) + Len(ts) <= MaxTasks
    /\ tasks' = tasks \o ts
    /\ adds' = Append(adds, ts)
    /\ UNCHANGED <<env, callerPc, workerPc, idx, runResult, result, invoked, hist>>

\* ---- the environment -----------------------------------------------------
\* The timer of time.After(d) fires once and puts one value in r.timeout.
TimerFire ==
    /\ ~timerFired
    /\ timerFired' = TRUE
    /\ timeout' = 1
    /\ UNCHANGED <<tasks, adds, interrupt, subscribed, callerPc, workerPc, idx,
                   runResult, result, invoked, hist>>

\* SignalDeliver for an r.interrupt made without a buffer (make(chan
\* os.Signal)): the non-blocking send finds no receiver waiting, since
\* gotInterrupt never waits, and the signal is lost.
SignalDeliver_Unbuffered ==
    /\ raised < MaxSignals
    /\ subscribed
    /\ interrupt = 0
    /\ raised' = raised + 1
    /\ UNCHANGED <<tasks, adds, env, callerPc, workerPc,
                   idx, runResult, result, invoked, raisedBeforeStart, sigBegan,
                   firedAtStart, firedAtComplete, checks, handoffs>>

\* os/signal relays an interrupt to r.interrupt with a non-blocking send:
\* only while the channel is registered and its one slot is free.
SignalDeliver ==
    /\ raised < MaxSignals
    /\ subscribed
    /\ interrupt = 0
    /\ interrupt' = 1
    /\ raised' = raised + 1
    /\ sigBegan' = IF sigBegan = -1 THEN Len(invoked) ELSE sigBegan
    /\ UNCHANGED <<tasks, adds, subscribed, timeout, timerFired, callerPc, workerPc,
                   idx, runResult, result, invoked, raisedBeforeStart,
                   firedAtStart, firedAtComplete, checks, handoffs>>

\* An interrupt raised while r.interrupt is not registered, or while its slot
\* is taken, does not reach r.interrupt.
SignalDrop ==
    /\ raised < MaxSignals
    /\ ~subscribed \/ interrupt = 1
    /\ raised' = raised + 1
    /\ raisedBeforeStart' = (raisedBeforeStart \/ callerPc = "init")
    /\ UNCHANGED <<tasks, adds, env, callerPc, workerPc, idx, runResult, result,
                   invoked, sigBegan, firedAtStart, firedAtComplete, checks,
                   handoffs>>

\* ---- Start ---------------------------------------------------------------
\* Start_Notify with the timer armed by Start instead of New
\* (r.timeout = time.After(d) at the top of Start).
Start_Notify_ArmsTimer ==
    /\ callerPc = "init"
    /\ callerPc' = "spawn"
    /\ subscribed' = TRUE
    /\ timerFired' = FALSE
    /\ timeout' = 0
    /\ firedAtStart' = timerFired
    /\ UNCHANGED <<tasks, adds, interrupt, workerPc, idx,
                   runResult, result, invoked, raised, raisedBeforeStart,
                   sigBegan, firedAtComplete, checks, handoffs>>

\* signal.Notify(r.interrupt, os.Interrupt)
Start_Notify ==
    /\ callerPc = "init"
    /\ callerPc' = "spawn"
    /\ subscribed' = TRUE
    /\ firedAtStart' = timerFired
    /\ UNCHANGED <<tasks, adds, interrupt, timeout, timerFired, workerPc, idx,
                   runResult, result, invoked, raised, raisedBeforeStart,
                   sigBegan, firedAtComplete, checks, handoffs>>

\* go func() { r.complete <- r.run() }(): the worker exists and enters run,
\* whose range loop starts at id 0.
Start_Go ==
    /\ callerPc = "spawn"
    /\ callerPc' = "select"
    /\ workerPc' = "loop"
    /\ idx' = 0
    /\ UNCHANGED <<tasks, adds, env, runResult, result, invoked, hist>>

\* Start_RecvComplete still receiving after Start has returned (a select
\* that is run again).
Start_RecvComplete_AfterReturn ==
    /\ callerPc \in {"select", "returned"}
    /\ workerPc = "send"
    /\ result' = runResult
    /\ callerPc' = "returned"
    /\ workerPc' = "done"
    /\ handoffs' = handoffs + 1
    /\ UNCHANGED <<tasks, adds, env, idx, runResult, invoked, raised,
                   raisedBeforeStart, sigBegan, firedAtStart, firedAtComplete,
                   checks>>

\* Start_RecvComplete with the received error dropped (return nil).
Start_RecvComplete_DropsErr ==
    /\ callerPc = "select"
    /\ workerPc = "send"
    /\ result' = Success
    /\ callerPc' = "returned"
    /\ workerPc' = "done"
    /\ handoffs' = handoffs + 1
    /\ UNCHANGED <<tasks, adds, env, idx, runResult, invoked, raised,
                   raisedBeforeStart, sigBegan, firedAtStart, firedAtComplete,
                   checks>>

\* case err := <-r.complete: return err.  The receive meets the worker
\* blocked in its send; the worker's goroutine then ends.
Start_RecvComplete ==
    /\ callerPc = "select"
    /\ workerPc = "send"
    /\ result' = runResult
    /\ callerPc' = "returned"
    /\ workerPc' = "done"
    /\ handoffs' = handoffs + 1
    /\ UNCHANGED <<tasks, adds, env, idx, runResult, invoked, raised,
                   raisedBeforeStart, sigBegan, firedAtStart, firedAtComplete,
                   checks>>

\* Start_RecvTimeout also ending the worker before it returns.
Start_RecvTimeout_StopsWorker ==
    /\ callerPc = "select"
    /\ timeout = 1
    /\ timeout' = 0
    /\ workerPc' = "done"
    /\ result' = ErrTimeout
    /\ callerPc' = "returned"
    /\ UNCHANGED <<tasks, adds, interrupt, subscribed, timerFired, idx,
                   runResult, invoked, hist>>

\* Start_RecvTimeout also calling signal.Stop(r.interrupt) before it returns.
Start_RecvTimeout_Unsubscribes ==
    /\ callerPc = "select"
    /\ timeout = 1
    /\ timeout' = 0
    /\ subscribed' = FALSE
    /\ result' = ErrTimeout
    /\ callerPc' = "returned"
    /\ UNCHANGED <<tasks, adds, interrupt, timerFired, workerPc, idx,
                   runResult, invoked, hist>>

\* Start_RecvTimeout returning the wrong error value.
Start_RecvTimeout_WrongErr ==
    /\ callerPc = "select"
    /\ timeout = 1
    /\ timeout' = 0
    /\ result' = ErrInterrupt
    /\ callerPc' = "returned"
    /\ UNCHANGED <<tasks, adds, interrupt, subscribed, timerFired, workerPc, idx,
                   runResult, invoked, hist>>

\* Start_RecvTimeout taken only once the running task has returned.
Start_RecvTimeout_WaitsForTask ==
    /\ callerPc = "select"
    /\ timeout = 1
    /\ workerPc # "task"
    /\ timeout' = 0
    /\ result' = ErrTimeout
    /\ callerPc' = "returned"
    /\ UNCHANGED <<tasks, adds, interrupt, subscribed, timerFired, workerPc, idx,
                   runResult, invoked, hist>>

\* case <-r.timeout: return ErrTimeout.  Nothing is done to the worker.
Start_RecvTimeout ==
    /\ callerPc = "select"
    /\ timeout = 1
    /\ timeout' = 0
    /\ result' = ErrTimeout
    /\ callerPc' = "returned"
    /\ UNCHANGED <<tasks, adds, interrupt, subscribed, timerFired, workerPc, idx,
                   runResult, invoked, hist>>

\* ---- run and gotInterrupt ------------------------------------------------
\* gotInterrupt_Recv with the check made before the range test, so that it
\* also runs when no task is left.
gotInterrupt_Recv_BeforeRange ==
    /\ workerPc = "loop"
    /\ interrupt = 1
    /\ interrupt' = 0
    /\ workerPc' = "stop"
    /\ checks' = checks + 1
    /\ UNCHANGED <<tasks, adds, subscribed, timeout, timerFired, callerPc, idx,
                   runResult, result, invoked, raised, raisedBeforeStart,
                   sigBegan, firedAtStart, firedAtComplete, handoffs>>

\* gotInterrupt, case <-r.interrupt: the pending signal is received.
gotInterrupt_Recv ==
    /\ workerPc = "loop"
    /\ idx < Len(tasks)
    /\ interrupt = 1
    /\ interrupt' = 0
    /\ workerPc' = "stop"
    /\ checks' = checks + 1
    /\ UNCHANGED <<tasks, adds, subscribed, timeout, timerFired, callerPc, idx,
                   runResult, result, invoked, raised, raisedBeforeStart,
                   sigBegan, firedAtStart, firedAtComplete, handoffs>>

\* gotInterrupt_Stop without the call of signal.Stop.
gotInterrupt_Stop_KeepsSubscription ==
    /\ workerPc = "stop"
    /\ runResult' = ErrInterrupt
    /\ workerPc' = "send"
    /\ firedAtComplete' = timerFired
    /\ UNCHANGED <<tasks, adds, env, callerPc, idx, result,
                   invoked, raised, raisedBeforeStart, sigBegan, firedAtStart,
                   checks, handoffs>>

\* gotInterrupt_Stop returning false after the signal was received, so that
\* run goes on to call the task.
gotInterrupt_Stop_ReturnsFalse ==
    /\ workerPc = "stop"
    /\ subscribed' = FALSE
    /\ invoked' = Append(invoked, <<tasks[idx + 1], idx>>)
    /\ workerPc' = "task"
    /\ UNCHANGED <<tasks, adds, interrupt, timeout, timerFired, callerPc, idx,
                   runResult, result, raised, raisedBeforeStart, sigBegan,
                   firedAtStart, firedAtComplete, checks, handoffs>>

\* signal.Stop(r.interrupt); return true; and run returns ErrInterrupt, which
\* the worker then offers on r.complete.
gotInterrupt_Stop ==
    /\ workerPc = "stop"
    /\ subscribed' = FALSE
    /\ runResult' = ErrInterrupt
    /\ workerPc' = "send"
    /\ firedAtComplete' = timerFired
    /\ UNCHANGED <<tasks, adds, interrupt, timeout, timerFired, callerPc, idx, result,
                   invoked, raised, raisedBeforeStart, sigBegan, firedAtStart,
                   checks, handoffs>>

\* gotInterrupt_Default taken although a signal is pending.
gotInterrupt_Default_IgnoresPending ==
    /\ workerPc = "loop"
    /\ idx < Len(tasks)
    /\ checks' = checks + 1
    /\ invoked' = Append(invoked, <<tasks[idx + 1], idx>>)
    /\ workerPc' = "task"
    /\ UNCHANGED <<tasks, adds, env, callerPc, idx, runResult, result, raised,
                   raisedBeforeStart, sigBegan, firedAtStart, firedAtComplete,
                   handoffs>>

\* gotInterrupt_Default with the task called with a 1-based position.
gotInterrupt_Default_OneBased ==
    /\ workerPc = "loop"
    /\ idx < Len(tasks)
    /\ interrupt = 0
    /\ checks' = checks + 1
    /\ invoked' = Append(invoked, <<tasks[idx + 1], idx + 1>>)
    /\ workerPc' = "task"
    /\ UNCHANGED <<tasks, adds, env, callerPc, idx, runResult, result, raised,
                   raisedBeforeStart, sigBegan, firedAtStart, firedAtComplete,
                   handoffs>>

\* gotInterrupt, default: return false; run then calls task(id).
gotInterrupt_Default ==
    /\ workerPc = "loop"
    /\ idx < Len(tasks)
    /\ interrupt = 0
    /\ checks' = checks + 1
    /\ invoked' = Append(invoked, <<tasks[idx + 1], idx>>)
    /\ workerPc' = "task"
    /\ UNCHANGED <<tasks, adds, env, callerPc, idx, runResult, result, raised,
                   raisedBeforeStart, sigBegan, firedAtStart, firedAtComplete,
                   handoffs>>

\* task_Return with the loop stepping over the next task.
task_Return_Skips ==
    /\ workerPc = "task"
    /\ idx' = idx + 2
    /\ workerPc' = "loop"
    /\ UNCHANGED <<tasks, adds, env, callerPc, runResult, result, invoked, hist>>

\* task(id) returns and the range loop moves to the next id.  A task may
\* also never return: nothing forces this step.
task_Return ==
    /\ workerPc = "task"
    /\ idx' = idx + 1
    /\ workerPc' = "loop"
    /\ UNCHANGED <<tasks, adds, env, callerPc, runResult, result, invoked, hist>>

\* run_ReturnNil with one more check made after the last task.
run_ReturnNil_ChecksAtEnd ==
    /\ workerPc = "loop"
    /\ idx = Len(tasks)
    /\ runResult' = (IF interrupt = 1 THEN ErrInterrupt ELSE Success)
    /\ interrupt' = 0
    /\ workerPc' = "send"
    /\ firedAtComplete' = timerFired
    /\ UNCHANGED <<tasks, adds, subscribed, timeout, timerFired, callerPc, idx,
                   result, invoked, raised, raisedBeforeStart, sigBegan,
                   firedAtStart, checks, handoffs>>

\* The range is exhausted: run returns nil, which the worker offers on
\* r.complete.
run_ReturnNil ==
    /\ workerPc = "loop"
    /\ idx = Len(tasks)
    /\ runResult' = Success
    /\ workerPc' = "send"
    /\ firedAtComplete' = timerFired
    /\ UNCHANGED <<tasks, adds, env, callerPc, idx, result, invoked, raised,
                   raisedBeforeStart, sigBegan, firedAtStart, checks, handoffs>>

\* ---- the specification ---------------------------------------------------
Next ==
    \/ \E ts \in SeqsOf(TaskIds, 0, MaxAdd) : Add(ts)
    \/ TimerFire
    \/ SignalDeliver
    \/ SignalDrop
    \/ Start_Notify
    \/ Start_Go
    \/ Start_RecvComplete
    \/ Start_RecvTimeout
    \/ gotInterrupt_Recv
    \/ gotInterrupt_Stop
    \/ gotInterrupt_Default
    \/ task_Return
    \/ run_ReturnNil

Spec == Init /\ [][Next]_vars

\* The caller's select takes one of its ready cases; the worker runs whenever
\* it can.  The timer is taken to fire eventually; a task need not return.
CallerFair ==
    /\ WF_vars(Start_Notify)
    /\ WF_vars(Start_Go)
    /\ WF_vars(Start_RecvComplete \/ Start_RecvTimeout)

WorkerFair ==
    /\ WF_vars(gotInterrupt_Recv)
    /\ WF_vars(gotInterrupt_Stop)
    /\ WF_vars(gotInterrupt_Default)
    /\ WF_vars(run_ReturnNil)

LiveSpec == Spec /\ CallerFair /\ WorkerFair /\ WF_vars(TimerFire)

\* As LiveSpec, and every task returns.
TaskFairSpec == LiveSpec /\ WF_vars(task_Return)

TypeOK ==
    /\ tasks \in SeqsOf(TaskIds, 0, MaxTasks)
    /\ interrupt \in 0..1
    /\ subscribed \in BOOLEAN
    /\ timeout \in 0..1
    /\ timerFired \in BOOLEAN
    /\ callerPc \in {"init", "spawn", "select", "returned"}
    /\ workerPc \in {"none", "loop", "stop", "task", "send", "done"}
    /\ idx \in 0..Len(tasks)
    /\ runResult \in {NoResult, Success, ErrInterrupt}
    /\ result \in {NoResult, Success, ErrInterrupt, ErrTimeout}
    /\ raised \in 0..MaxSignals
    /\ sigBegan \in -1..Len(tasks)
    /\ checks \in 0..Len(tasks)
    /\ handoffs \in 0..1
    /\ adds \in SeqsOf(SeqsOf(TaskIds, 0, MaxAdd), 0, MaxAdds)

\* ---- vocabulary of the properties ----------------------------------------
Returned == callerPc = "returned"

\* the calls a complete run makes over the first n registered tasks
InOrder(n) == [i \in 1..n |-> <<tasks[i], i - 1>>]

\* the caller's select commits in this step
Commits == callerPc = "select" /\ callerPc' = "returned"

\* the argument lists of several Add calls joined into the one list a single
\* Add call would be given
RECURSIVE Flatten(_)
Flatten(ss) == IF ss = <<>> THEN <<>> ELSE Head(ss) \o Flatten(Tail(ss))

\* ---- C1 ------------------------------------------------------------------
\* C1: when no interrupt is ever raised and the timer has not fired, a
\* returned Start has returned nil and the tasks have been called exactly
\* once each, in registration order, each with its registration index.
C1_SuccessInOrder ==
    (Returned /\ raised = 0 /\ ~timerFired)
        => (result = Success /\ invoked = InOrder(Len(tasks)))

C1_Witness ==
    /\ Returned /\ raised = 0 /\ ~timerFired
    /\ Len(tasks) = 3 /\ tasks[1] # tasks[2]
    /\ Len(invoked) = 3

\* ---- C2 ------------------------------------------------------------------
\* C2 as stated: if run returned before the timer fired, Start returns the
\* value run returned, in every interleaving.
C2_Original ==
    (Returned /\ workerPc \in {"send", "done"} /\ ~firedAtComplete)
        => result = runResult

\* C2 amended: if the timer has not fired when the caller's select commits,
\* Start returns exactly the value run returned, never ErrTimeout; a Start
\* that returns anything but ErrTimeout returns the value run returned.
C2_LoopValueBeforeDeadline ==
    /\ (Returned /\ ~timerFired)
           => (workerPc = "done" /\ result = runResult /\ result # ErrTimeout)
    /\ (Returned /\ result # ErrTimeout)
           => (workerPc = "done" /\ result = runResult)

C2_Witness ==
    /\ Returned /\ ~timerFired
    /\ result = ErrInterrupt /\ runResult = ErrInterrupt

\* ---- C3 ------------------------------------------------------------------
\* C3 as stated: a select that commits with the timer fired and nothing yet
\* delivered returns ErrTimeout.
C3_Original ==
    [][(Commits /\ timeout = 1) => result' = ErrTimeout]_vars

\* C3 amended: once the timer has fired the ErrTimeout return of a caller in
\* its select is enabled whatever the worker is doing, and a select that
\* commits with the timer fired while the worker is not offering a result
\* returns ErrTimeout.
C3_TimeoutWithoutWaiting ==
    /\ []((callerPc = "select" /\ timerFired) => ENABLED Start_RecvTimeout)
    /\ [][(Commits /\ timeout = 1 /\ workerPc # "send")
              => (result' = ErrTimeout /\ workerPc' = workerPc)]_vars

C3_Witness ==
    /\ Returned /\ result = ErrTimeout
    /\ workerPc = "task" /\ idx = 0 /\ Len(tasks) = 2

\* ---- C4 ------------------------------------------------------------------
\* C4 as stated: an interrupt raised before Start is called, with at least
\* one task registered, makes Start return ErrInterrupt with no task called
\* (stated here for the runs in which the timer has not fired, where it
\* fails as well).
C4_Original ==
    (Returned /\ raisedBeforeStart /\ Len(tasks) >= 1 /\ ~timerFired)
        => (result = ErrInterrupt /\ invoked = <<>>)

\* C4 amended: no interrupt reaches the runner before Start has called
\* signal.Notify; an interrupt relayed after that and before the first check,
\* with at least one task registered, leaves no task called, and Start
\* returns ErrInterrupt, or ErrTimeout if the timer has fired.
C4_InterruptBeforeFirstTask ==
    /\ callerPc = "init" => (interrupt = 0 /\ sigBegan = -1)
    /\ (sigBegan = 0 /\ Len(tasks) >= 1) =>
           /\ invoked = <<>>
           /\ workerPc \in {"send", "done"} => runResult = ErrInterrupt
           /\ Returned => result \in {ErrInterrupt, ErrTimeout}
           /\ (Returned /\ ~timerFired) => result = ErrInterrupt

C4_Witness ==
    /\ Returned /\ result = ErrInterrupt /\ ~timerFired
    /\ sigBegan = 0 /\ Len(tasks) = 2 /\ invoked = <<>>

\* ---- C5 ------------------------------------------------------------------
\* C5 as stated: an interrupt relayed after task k began and before the
\* check that precedes task k+1 leaves exactly tasks 0..k called and makes
\* Start return ErrInterrupt.
C5_Original ==
    (Returned /\ sigBegan >= 1 /\ sigBegan < Len(tasks))
        => (result = ErrInterrupt /\ invoked = InOrder(sigBegan))

\* C5 amended: an interrupt relayed after task k began and before the check
\* that precedes task k+1 leaves exactly tasks 0..k called, run returns
\* ErrInterrupt, and Start returns ErrInterrupt, or ErrTimeout if the timer
\* has fired.
C5_InterruptBetweenTasks ==
    (sigBegan >= 1 /\ sigBegan < Len(tasks)) =>
        /\ invoked = InOrder(sigBegan)
        /\ workerPc \in {"send", "done"} => runResult = ErrInterrupt
        /\ Returned => result \in {ErrInterrupt, ErrTimeout}
        /\ (Returned /\ ~timerFired) => result = ErrInterrupt

C5_Witness ==
    /\ Returned /\ result = ErrInterrupt /\ ~timerFired
    /\ sigBegan = 2 /\ Len(tasks) = 3 /\ Len(invoked) = 2

\* ---- C6 ------------------------------------------------------------------
\* C6: Start returns one value of nil, ErrTimeout, ErrInterrupt; once it has
\* returned, the value is final and nothing more is received from
\* r.complete; at most one value is ever handed over r.complete, and none
\* when Start returned ErrTimeout.
C6_SingleResult ==
    /\ [](/\ handoffs <= 1
          /\ Returned <=> result \in {Success, ErrTimeout, ErrInterrupt}
          /\ Returned => (handoffs = 1 <=> result # ErrTimeout))
    /\ [][Returned => (Returned' /\ result' = result /\ handoffs' = handoffs)]_vars

C6_Witness ==
    /\ Returned /\ result = ErrTimeout
    /\ workerPc = "send" /\ runResult = ErrInterrupt /\ handoffs = 0

\* ---- C7 ------------------------------------------------------------------
\* C7: after Start has returned ErrTimeout, and with every task returning,
\* the worker eventually terminates.
C7_OrphanTerminates ==
    (Returned /\ result = ErrTimeout) ~> (workerPc = "done")

\* ---- C8 ------------------------------------------------------------------
\* C8: with the timer eventually firing, a Start that was called eventually
\* returns, even if a task never returns; and Start has never returned
\* unless the worker has handed over its result or the timer has fired.
C8_StartReturns ==
    /\ (callerPc # "init") ~> Returned
    /\ [](Returned => ((workerPc = "done" /\ handoffs = 1) \/ timerFired))

C8_Witness ==
    /\ Returned /\ result = ErrTimeout
    /\ workerPc = "task" /\ idx = 1 /\ Len(tasks) = 3

\* ---- C9 ------------------------------------------------------------------
\* C9 as stated: when the timer had fired before Start was called and at
\* least one task is registered, Start returns ErrTimeout.
C9_Original ==
    (Returned /\ firedAtStart /\ Len(tasks) >= 1) => result = ErrTimeout

\* C9 amended: when the timer had fired before Start was called, the
\* ErrTimeout case is ready as soon as the caller reaches its select, and
\* Start returns ErrTimeout unless the worker is already offering its result
\* when the select commits.
C9_ElapsedDeadline ==
    /\ []((firedAtStart /\ callerPc = "select") => timeout = 1)
    /\ [][(Commits /\ firedAtStart /\ workerPc # "send")
              => result' = ErrTimeout]_vars

C9_Witness ==
    /\ Returned /\ firedAtStart /\ result = ErrTimeout
    /\ Len(tasks) = 1 /\ workerPc \in {"loop", "task"}

\* ---- C10 -----------------------------------------------------------------
\* C10: with no task registered and the timer not fired, Start returns nil,
\* gotInterrupt was never called, r.interrupt is still registered and a
\* relayed signal is still pending in it.
C10_EmptySequence ==
    /\ (Returned /\ Len(tasks) = 0 /\ ~timerFired) => result = Success
    /\ (Returned /\ Len(tasks) = 0) =>
           /\ result \in {Success, ErrTimeout}
           /\ checks = 0
           /\ subscribed
           /\ interrupt = (IF sigBegan = -1 THEN 0 ELSE 1)

C10_Witness ==
    /\ Returned /\ Len(tasks) = 0 /\ ~timerFired
    /\ result = Success /\ interrupt = 1

\* ---- C11 -----------------------------------------------------------------
\* C11: after any series of Add calls (empty ones included) the stored
\* tasks are the concatenation of the argument lists, as one Add call with
\* the whole list would store them; the calls made by a run are a prefix of
\* that list with positions 0,1,..., all of it with result nil when no signal
\* is raised and the timer has not fired; and a step never changes or removes
\* a task already registered.
C11_AddConcatenative ==
    /\ [](tasks = <<>> \o Flatten(adds))
    /\ [](invoked = [i \in 1..Len(invoked) |-> <<Flatten(adds)[i], i - 1>>])
    /\ []((Returned /\ raised = 0 /\ ~timerFired)
              => (result = Success /\ Len(invoked) = Len(Flatten(adds))))
    /\ [][/\ Len(tasks') >= Len(tasks)
          /\ \A i \in 1..Len(tasks) : tasks'[i] = tasks[i]]_vars

C11_Witness ==
    /\ Len(adds) = 3 /\ Len(adds[1]) = 1 /\ adds[2] = <<>> /\ Len(adds[3]) = 2
    /\ adds[1][1] # adds[3][1]
    /\ Returned /\ result = Success /\ Len(invoked) = 3

\* ---- C12 -----------------------------------------------------------------
\* C12: r.interrupt is unregistered only by the worker, in the step that
\* follows a check's receive of the signal; when Start has returned
\* ErrInterrupt it is already unregistered; the return of ErrTimeout and the
\* return of nil leave the registration as it was, and after a return of nil
\* it is still registered.
C12_UnsubscribeOnlyByLoop ==
    /\ []((Returned /\ result = ErrInterrupt) => ~subscribed)
    /\ []((Returned /\ result = Success) => subscribed)
    /\ [][(Commits /\ result' \in {ErrTimeout, Success})
              => subscribed' = subscribed]_vars
    /\ [][(subscribed /\ ~subscribed')
              => (workerPc = "stop" /\ workerPc' = "send"
                  /\ runResult' = ErrInterrupt)]_vars

C12_Witness ==
    /\ Returned /\ result = ErrTimeout
    /\ subscribed /\ interrupt = 1 /\ workerPc = "task"

\* ---- C13 -----------------------------------------------------------------
\* C13: the return of ErrTimeout changes nothing of the worker; after it the
\* worker's next call of a task is still enabled; every call made, before or
\* after the return, is the next one in registration order and is made by a
\* check that found no signal; and there is one worker, which exists exactly
\* from the go statement of Start on.
C13_TimeoutLeavesWorker ==
    /\ [][(Commits /\ result' = ErrTimeout)
              => UNCHANGED <<workerPc, idx, runResult, invoked, checks,
                             interrupt, subscribed>>]_vars
    /\ []((Returned /\ result = ErrTimeout /\ workerPc = "loop"
              /\ idx < Len(tasks) /\ interrupt = 0)
             => ENABLED gotInterrupt_Default)
    /\ [](invoked = InOrder(Len(invoked)))
    /\ [][Len(invoked') > Len(invoked)
              => (/\ invoked' = InOrder(Len(invoked) + 1)
                  /\ checks' = checks + 1
                  /\ interrupt = 0)]_vars
    /\ [](workerPc = "none" <=> callerPc \in {"init", "spawn"})
    /\ [][callerPc' = "spawn" => callerPc \in {"init", "spawn"}]_vars

C13_Witness ==
    /\ Returned /\ result = ErrTimeout
    /\ workerPc = "loop" /\ idx = 1 /\ Len(tasks) = 3 /\ Len(invoked) = 1
    /\ ENABLED gotInterrupt_Default

\* ---- C14 -----------------------------------------------------------------
\* C14: a signal first relayed once the last task has begun is never
\* received by the run: it stays pending, run returns nil and Start returns
\* nil or ErrTimeout; and Start returns ErrInterrupt only after a check
\* before some task received a signal, that task and the later ones not
\* having been called.
C14_LateSignalUnobserved ==
    /\ (sigBegan = Len(tasks)) =>
           /\ interrupt = 1 /\ subscribed
           /\ checks = Len(invoked)
           /\ workerPc \in {"send", "done"} => runResult = Success
           /\ Returned => result \in {Success, ErrTimeout}
    /\ (Returned /\ result = ErrInterrupt) =>
           /\ sigBegan >= 0 /\ sigBegan <= Len(invoked)
           /\ checks = Len(invoked) + 1
           /\ idx = Len(invoked) /\ Len(invoked) < Len(tasks)
           /\ invoked = InOrder(idx)

C14_Witness ==
    /\ Returned /\ result = Success /\ workerPc = "done"
    /\ Len(tasks) = 2 /\ sigBegan = 2 /\ interrupt = 1

\* ---- C15 -----------------------------------------------------------------
\* C15: in a run at most one call of gotInterrupt returns true, and run
\* returns ErrInterrupt right after it; that call takes the signal it saw
\* out of r.interrupt; and once it has called signal.Stop no signal is
\* relayed to r.interrupt any more.
C15_ConsumedOnObservation ==
    /\ [](/\ checks - Len(invoked) \in {0, 1}
          /\ (checks - Len(invoked) = 1)
                 <=> (workerPc = "stop" \/ runResult = ErrInterrupt))
    /\ [][(workerPc = "loop" /\ workerPc' = "stop")
              => (interrupt = 1 /\ interrupt' = 0)]_vars
    /\ [](runResult = ErrInterrupt => (~subscribed /\ ~ENABLED SignalDeliver))
    /\ [][runResult = ErrInterrupt
              => (interrupt' = interrupt /\ checks' = checks)]_vars

C15_Witness ==
    /\ Returned /\ result = ErrInterrupt
    /\ interrupt = 0 /\ raised = 1
    /\ ENABLED SignalDrop /\ ~ENABLED SignalDeliver

\* ---- C16 -----------------------------------------------------------------
\* C16: the timer is armed by New and runs from then on, so it may fire
\* before Start is called; it fires at most once, a value enters r.timeout
\* only by that firing, and no step of Add or of Start arms it again or
\* undoes its firing.
C16_TimerArmedOnce ==
    /\ []((callerPc = "init" /\ ~timerFired) => ENABLED TimerFire)
    /\ [](timeout = 1 => timerFired)
    /\ [][timerFired => timerFired']_vars
    /\ [][timeout' > timeout => (~timerFired /\ timerFired')]_vars
    /\ [][(tasks' # tasks \/ adds' # adds \/ callerPc' # callerPc)
              => (timerFired' = timerFired /\ timeout' <= timeout)]_vars

C16_Witness ==
    /\ callerPc = "init" /\ Len(adds) = 2 /\ Len(tasks) = 2
    /\ timerFired /\ timeout = 1

\* ---- C17 -----------------------------------------------------------------
\* C17: a worker at the top of its loop always has a step to take, whether
\* or not a signal is pending, and with none pending that step is the call
\* of the next task; a signal raised while r.interrupt is registered and
\* empty is kept in it, only a check takes it out, and a check that finds it
\* cannot return false; r.interrupt never holds more than one signal, and a
\* signal raised while one is pending is dropped, the source not waiting.
C17_NonBlockingCheck ==
    /\ [](workerPc = "loop" =>
              ENABLED (gotInterrupt_Recv \/ gotInterrupt_Default \/ run_ReturnNil))
    /\ []((workerPc = "loop" /\ idx < Len(tasks) /\ interrupt = 0)
              => ENABLED gotInterrupt_Default)
    /\ []((workerPc = "loop" /\ idx < Len(tasks) /\ interrupt = 1)
              => (ENABLED gotInterrupt_Recv /\ ~ENABLED gotInterrupt_Default))
    /\ [][(raised' = raised + 1 /\ subscribed /\ interrupt = 0)
              => interrupt' = 1]_vars
    /\ [][(interrupt = 1 /\ interrupt' = 0)
              => (workerPc = "loop" /\ workerPc' = "stop")]_vars
    /\ [](interrupt \in {0, 1})
    /\ []((interrupt = 1 /\ raised < MaxSignals) => ENABLED SignalDrop)
    /\ [][(raised' = raised + 1 /\ interrupt = 1)
              => (interrupt' = 1 /\ workerPc' = workerPc)]_vars

C17_Witness ==
    /\ subscribed /\ interrupt = 1 /\ raised = 2 /\ ~raisedBeforeStart
    /\ workerPc = "task" /\ idx = 0 /\ Len(tasks) = 2

\* ---- C18 -----------------------------------------------------------------
\* C18: in every state the calls made are those of tasks 0..j-1 in
\* registration order, each once; the tasks that have returned are 0..idx-1
\* and at most one more, task idx, is running; when Start returns nil all
\* tasks have been called and have returned, and when it returns
\* ErrInterrupt fewer than all were called.
C18_PrefixInvariant ==
    /\ Len(invoked) <= Len(tasks)
    /\ invoked = InOrder(Len(invoked))
    /\ Len(invoked) = idx + (IF workerPc = "task" THEN 1 ELSE 0)
    /\ (Returned /\ result = Success) =>
           (idx = Len(tasks) /\ Len(invoked) = Len(tasks) /\ workerPc = "done")
    /\ (Returned /\ result = ErrInterrupt) => Len(invoked) < Len(tasks)

C18_Witness ==
    /\ callerPc = "select" /\ timerFired /\ interrupt = 1
    /\ workerPc = "task" /\ idx = 1 /\ Len(invoked) = 2 /\ Len(tasks) = 3

====
